---- MODULE Spec2Model ----
(***************************************************************************)
(* stan::agrad::finite_diff_hessian_AD                                     *)
(* (src/src/stan/math/rev/mat/functor/finite_diff_hessian_AD.hpp).         *)
(*                                                                         *)
(* The routine is modelled statement by statement.  The functor f is a     *)
(* polynomial with integer coefficients that throws std::domain_error at   *)
(* a pole; points and step sizes are integers, so every intermediate       *)
(* double is an exact rational and the model computes in exact arithmetic. *)
(* A double is a record [k, n, d]: a normalised fraction n/d, or NaN, an   *)
(* infinity, an indeterminate (uninitialised) value, or contents the       *)
(* caller left in the matrix before the call.                              *)
(***************************************************************************)
EXTENDS Integers, Sequences, FiniteSets, TLC

\* Bounds of the enumerated inputs.
MaxD == 2
MaxX == 2
MaxEps == 2

Dims == 0..MaxD
XVals == 0..MaxX
EpsVals == -1..MaxEps
CoefVals == {0, 1}

\* pc: the position in the routine.  f, x, epsilon: the arguments.
\* hess_fx, fx: the caller's output objects.  d .. dummy_fx_eval: the locals.
\* gcalls, fcalls: the points at which gradient() and f() have been called.
\* thrown: the exception that left the routine.  h0: hess_fx as it was at the call.
VARIABLES pc, f, x, epsilon, hess_fx, fx,
          d, i, x_temp, g_auto, g_diff, dummy_fx_eval,
          gcalls, fcalls, thrown, h0

vars == <<pc, f, x, epsilon, hess_fx, fx, d, i, x_temp, g_auto, g_diff,
          dummy_fx_eval, gcalls, fcalls, thrown, h0>>

----------------------------------------------------------------------------
\* Doubles, in exact arithmetic.

Abs(n) == IF n < 0 THEN -n ELSE n

RECURSIVE GCD(_, _)
GCD(a, b) == IF b = 0 THEN a ELSE GCD(b, a % b)

Num(n) == [k |-> "num", n |-> n, d |-> 1]
NaN == [k |-> "nan", n |-> 0, d |-> 0]
PosInf == [k |-> "inf", n |-> 1, d |-> 0]
NegInf == [k |-> "inf", n |-> -1, d |-> 0]
Indet == [k |-> "indet", n |-> 0, d |-> 0]
Prior == [k |-> "prior", n |-> 0, d |-> 0]

\* The fraction n/m (m # 0) in lowest terms with a positive denominator.
Norm(n, m) ==
  LET g == GCD(Abs(n), Abs(m))
      s == IF m < 0 THEN -1 ELSE 1
  IN [k |-> "num", n |-> (s * n) \div g, d |-> (s * m) \div g]

\* An indeterminate operand (uninitialised, or the caller's earlier contents)
\* makes the result indeterminate; otherwise the operations follow IEEE 754.
IsIndet(a) == a.k \in {"indet", "prior"}

\* -a: the sign of an infinity flips, NaN stays NaN.
VNeg(a) ==
  IF a.k = "num" THEN Norm(-a.n, a.d)
  ELSE IF a.k = "inf" THEN [a EXCEPT !.n = -a.n]
  ELSE a

\* a + b: inf + (-inf) = NaN, anything + NaN = NaN, inf + finite = inf.
VAdd(a, b) ==
  IF IsIndet(a) THEN a
  ELSE IF IsIndet(b) THEN b
  ELSE IF a.k = "nan" \/ b.k = "nan" THEN NaN
  ELSE IF a.k = "inf" /\ b.k = "inf" THEN (IF a.n = b.n THEN a ELSE NaN)
  ELSE IF a.k = "inf" THEN a
  ELSE IF b.k = "inf" THEN b
  ELSE Norm(a.n * b.d + b.n * a.d, a.d * b.d)

\* c * a for an integer-valued double c: 0 * inf = NaN, a negative c flips an infinity.
VScale(c, a) ==
  IF a.k = "num" THEN Norm(c * a.n, a.d)
  ELSE IF a.k = "inf" THEN (IF c = 0 THEN NaN ELSE IF c < 0 THEN VNeg(a) ELSE a)
  ELSE a

\* a / c for an integer-valued double c: IEEE division, 0/0 = NaN, n/0 = +-inf,
\* inf/c = +-inf with the sign of the quotient.
VDiv(a, c) ==
  IF a.k = "inf" THEN (IF c < 0 THEN VNeg(a) ELSE a)
  ELSE IF a.k # "num" THEN a
  ELSE IF c = 0 THEN (IF a.n = 0 THEN NaN ELSE IF a.n > 0 THEN PosInf ELSE NegInf)
  ELSE Norm(a.n, a.d * c)

RECURSIVE SumF(_, _)
SumF(fn, n) == IF n = 0 THEN 0 ELSE fn[n] + SumF(fn, n - 1)

----------------------------------------------------------------------------
\* The functor F and the gradient functional.

Pairs(n) == {p \in (1..n) \X (1..n) : p[1] <= p[2]}

Ones(n) == [p \in Pairs(n) |-> 1]
Zeros(n) == [p \in Pairs(n) |-> 0]

\* f(p) = sum_{j<=k} Q[j,k] p_j p_k + sum_j (c3 p_j^3 + c4 p_j^4 + c6 p_j^6),
\* undefined (throws) where coordinate pk of p equals pv; pk = 0: no pole.
Funcs(n) ==
  {fn \in [Q : [Pairs(n) -> CoefVals], c3 : CoefVals, c4 : CoefVals,
           c6 : CoefVals, pk : 0..n, pv : XVals] :
     /\ fn.pk = 0 => fn.pv = 0
     /\ fn.pk # 0 => fn.Q = Ones(n) /\ fn.c3 = 0 /\ fn.c4 = 0 /\ fn.c6 = 0
     /\ (fn.c3 # 0 \/ fn.c4 # 0 \/ fn.c6 # 0) => fn.Q \in {Zeros(n), Ones(n)}}

Coef(fn, j, k) == IF j <= k THEN fn.Q[<<j, k>>] ELSE fn.Q[<<k, j>>]

Defined(fn, p) == IF fn.pk = 0 THEN TRUE ELSE p[fn.pk] # fn.pv

Value(fn, p) ==
  LET n == Len(p) IN
  SumF([j \in 1..n |->
          SumF([k \in 1..n |-> IF j <= k THEN fn.Q[<<j, k>>] * p[j] * p[k] ELSE 0], n)
          + fn.c3 * p[j]^3 + fn.c4 * p[j]^4 + fn.c6 * p[j]^6], n)

Partial(fn, p, j) ==
  LET n == Len(p) IN
  SumF([k \in 1..n |-> IF k = j THEN 2 * fn.Q[<<j, j>>] * p[j]
                                ELSE Coef(fn, j, k) * p[k]], n)
  + 3 * fn.c3 * p[j]^2 + 4 * fn.c4 * p[j]^3 + 6 * fn.c6 * p[j]^5

\* stan::agrad::gradient(f, x, fx, grad_fx): the value and the exact gradient.
Gradient(fn, p) ==
  [value |-> Num(Value(fn, p)),
   grad |-> [j \in 1..Len(p) |-> Num(Partial(fn, p, j))]]

----------------------------------------------------------------------------
\* Eigen matrices and vectors.

Mat(r, c, v) == [rows |-> r, cols |-> c, a |-> [rc \in (1..r) \X (1..c) |-> v]]

\* The matrix is left alone when there is nothing to store.
ResizeNonEmpty(h, r, c) == IF r * c = 0 THEN h ELSE Mat(r, c, Indet)

\* Matrix::resize(r, c): storage is kept (column-major) when the number of
\* coefficients does not change, and reallocated uninitialised otherwise.
Resize(h, r, c) ==
  IF h.rows * h.cols = r * c
  THEN [rows |-> r, cols |-> c,
        a |-> [rc \in (1..r) \X (1..c) |->
                 LET idx == (rc[2] - 1) * r + (rc[1] - 1)
                 IN h.a[<<(idx % h.rows) + 1, (idx \div h.rows) + 1>>]]]
  ELSE Mat(r, c, Indet)

\* hess_fx.col(c0) = v, for the 0-based column c0.
SetCol(h, c0, v) ==
  [h EXCEPT !.a = [rc \in DOMAIN h.a |-> IF rc[2] = c0 + 1 THEN v[rc[1]] ELSE h.a[rc]]]

VecZero(n) == [j \in 1..n |-> Num(0)]

----------------------------------------------------------------------------
\* The statements of finite_diff_hessian_AD, by line.

\* The loop stops one dimension early.
LoopCondShort(i0, n) == i0 < n - 1

\* line 51: i < d
LoopCond(i0, n) == i0 < n

\* line 53: x_temp(i) += 2.0 * epsilon
Perturb1(xt, i0, eps) == [xt EXCEPT ![i0 + 1] = xt[i0 + 1] + 2 * eps]

\* The second point taken from the working point: x_temp(i) -= 2.0 * epsilon.
Perturb2Rel(xt, xo, i0, eps) == [xt EXCEPT ![i0 + 1] = xt[i0 + 1] - 2 * eps]

\* line 57: x_temp(i) = x(i) + -2.0 * epsilon
Perturb2(xt, xo, i0, eps) == [xt EXCEPT ![i0 + 1] = xo[i0 + 1] + (-2) * eps]

\* line 61: x_temp(i) = x(i) + epsilon
Perturb3(xt, xo, i0, eps) == [xt EXCEPT ![i0 + 1] = xo[i0 + 1] + eps]

\* line 65: x_temp(i) = x(i) - epsilon
Perturb4(xt, xo, i0, eps) == [xt EXCEPT ![i0 + 1] = xo[i0 + 1] - eps]

\* The working point is not restored.
RestoreSkip(xt, xo, i0) == xt

\* line 69: x_temp(i) = x(i)
Restore(xt, xo, i0) == [xt EXCEPT ![i0 + 1] = xo[i0 + 1]]

\* line 55: g_diff = -g_auto
Acc1(g) == [j \in DOMAIN g |-> VNeg(g[j])]

\* line 59: g_diff += g_auto
Acc2(gd, g) == [j \in DOMAIN gd |-> VAdd(gd[j], g[j])]

\* line 63: g_diff += 8.0 * g_auto
Acc3(gd, g) == [j \in DOMAIN gd |-> VAdd(gd[j], VScale(8, g[j]))]

\* The fourth gradient added instead of subtracted.
Acc4Plus(gd, g) == [j \in DOMAIN gd |-> VAdd(gd[j], VScale(8, g[j]))]

\* line 67: g_diff -= 8.0 * g_auto
Acc4(gd, g) == [j \in DOMAIN gd |-> VAdd(gd[j], VNeg(VScale(8, g[j])))]

\* The divisor of the two-point stencil.
DivisorSix(eps) == 6 * eps

\* The divisor taken from the magnitude of the step.
DivisorAbs(eps) == 12 * Abs(eps)

\* line 70: 12.0 * epsilon
Divisor(eps) == 12 * eps

\* line 70: g_diff /= 12.0 * epsilon
Scale(gd, eps) == [j \in DOMAIN gd |-> VDiv(gd[j], Divisor(eps))]

\* The failed call is made again.
UnwindRetry(at) == at

\* lines 52-72 as a function: column i0 of the result for the step eps.
StencilColumn(fn, xo, i0, eps) ==
  LET g1 == Gradient(fn, Perturb1(xo, i0, eps)).grad
      g2 == Gradient(fn, Perturb2(xo, xo, i0, eps)).grad
      g3 == Gradient(fn, Perturb3(xo, xo, i0, eps)).grad
      g4 == Gradient(fn, Perturb4(xo, xo, i0, eps)).grad
  IN Scale(Acc4(Acc3(Acc2(Acc1(g1), g2), g3), g4), eps)

\* An exception leaving gradient() or f() is not caught: control leaves the routine.
Unwind(at) == "failed"

\* fx taken from the value the last gradient call returned.
EvalFxDummy(fv, dummy) == dummy

\* line 74: fx = f(x); fv is the value f returned, dummy the local dummy_fx_eval.
EvalFx(fv, dummy) == fv

----------------------------------------------------------------------------
\* The caller's state at the call.

PriorShapes(n) == {<<n, n>>, <<1, n * n>>, <<n + 1, 1>>}

Init ==
  /\ pc = "entry"
  /\ \E n \in Dims :
       /\ x \in [1..n -> XVals]
       /\ f \in Funcs(n)
       /\ \E s \in PriorShapes(n) : hess_fx = Mat(s[1], s[2], Prior)
  /\ h0 = hess_fx
  /\ epsilon \in EpsVals
  /\ fx = Prior
  /\ d = 0
  /\ i = 0
  /\ x_temp = <<>>
  /\ g_auto = <<>>
  /\ g_diff = <<>>
  /\ dummy_fx_eval = Indet
  /\ gcalls = <<>>
  /\ fcalls = <<>>
  /\ thrown = "none"

\* lines 43-48 and the initialisation of the loop
Enter ==
  /\ pc = "entry"
  /\ d' = Len(x)
  /\ x_temp' = x
  /\ g_auto' = [j \in 1..Len(x) |-> Indet]
  /\ hess_fx' = Resize(hess_fx, Len(x), Len(x))
  /\ i' = 0
  /\ pc' = "loop"
  /\ UNCHANGED <<h0, f, x, epsilon, fx, g_diff, dummy_fx_eval, gcalls, fcalls, thrown>>

\* line 51, condition false
LoopExit ==
  /\ pc = "loop"
  /\ ~LoopCond(i, d)
  /\ pc' = "eval"
  /\ UNCHANGED <<h0, f, x, epsilon, hess_fx, fx, d, i, x_temp, g_auto, g_diff,
                 dummy_fx_eval, gcalls, fcalls, thrown>>

\* gradient(f, x_temp, dummy_fx_eval, g_auto) returns normally at the point p
GradReturns(p) ==
  /\ Defined(f, p)
  /\ gcalls' = Append(gcalls, p)
  /\ g_auto' = Gradient(f, p).grad
  /\ dummy_fx_eval' = Gradient(f, p).value
  /\ thrown' = thrown

\* gradient(f, x_temp, dummy_fx_eval, g_auto) throws at the point p
GradThrows(p) ==
  /\ ~Defined(f, p)
  /\ gcalls' = Append(gcalls, p)
  /\ thrown' = "domain_error"
  /\ pc' = Unwind(pc)
  /\ UNCHANGED <<g_auto, dummy_fx_eval>>

\* line 51 (condition true) and lines 52-55
Step1 ==
  /\ pc = "loop"
  /\ LoopCond(i, d)
  /\ x_temp' = Perturb1(x_temp, i, epsilon)
  /\ \/ /\ GradReturns(x_temp')
        /\ g_diff' = Acc1(g_auto')
        /\ pc' = "s2"
     \/ /\ GradThrows(x_temp')
        /\ g_diff' = VecZero(d)
  /\ UNCHANGED <<h0, f, x, epsilon, hess_fx, fx, d, i, fcalls>>

\* lines 57-59
Step2 ==
  /\ pc = "s2"
  /\ x_temp' = Perturb2(x_temp, x, i, epsilon)
  /\ \/ /\ GradReturns(x_temp')
        /\ g_diff' = Acc2(g_diff, g_auto')
        /\ pc' = "s3"
     \/ /\ GradThrows(x_temp')
        /\ g_diff' = g_diff
  /\ UNCHANGED <<h0, f, x, epsilon, hess_fx, fx, d, i, fcalls>>

\* lines 61-63
Step3 ==
  /\ pc = "s3"
  /\ x_temp' = Perturb3(x_temp, x, i, epsilon)
  /\ \/ /\ GradReturns(x_temp')
        /\ g_diff' = Acc3(g_diff, g_auto')
        /\ pc' = "s4"
     \/ /\ GradThrows(x_temp')
        /\ g_diff' = g_diff
  /\ UNCHANGED <<h0, f, x, epsilon, hess_fx, fx, d, i, fcalls>>

\* lines 65-67
Step4 ==
  /\ pc = "s4"
  /\ x_temp' = Perturb4(x_temp, x, i, epsilon)
  /\ \/ /\ GradReturns(x_temp')
        /\ g_diff' = Acc4(g_diff, g_auto')
        /\ pc' = "col"
     \/ /\ GradThrows(x_temp')
        /\ g_diff' = g_diff
  /\ UNCHANGED <<h0, f, x, epsilon, hess_fx, fx, d, i, fcalls>>

\* lines 69-72 and the increment of line 51
Column ==
  /\ pc = "col"
  /\ x_temp' = Restore(x_temp, x, i)
  /\ g_diff' = Scale(g_diff, epsilon)
  /\ hess_fx' = SetCol(hess_fx, i, g_diff')
  /\ i' = i + 1
  /\ pc' = "loop"
  /\ UNCHANGED <<h0, f, x, epsilon, fx, d, g_auto, dummy_fx_eval, gcalls, fcalls, thrown>>

\* line 74
Eval ==
  /\ pc = "eval"
  /\ fcalls' = Append(fcalls, x)
  /\ \/ /\ Defined(f, x)
        /\ fx' = EvalFx(Num(Value(f, x)), dummy_fx_eval)
        /\ pc' = "done"
        /\ thrown' = thrown
     \/ /\ ~Defined(f, x)
        /\ thrown' = "domain_error"
        /\ pc' = Unwind(pc)
        /\ fx' = fx
  /\ UNCHANGED <<h0, f, x, epsilon, hess_fx, d, i, x_temp, g_auto, g_diff,
                 dummy_fx_eval, gcalls>>

Next ==
  \/ Enter
  \/ LoopExit
  \/ Step1
  \/ Step2
  \/ Step3
  \/ Step4
  \/ Column
  \/ Eval

Spec == Init /\ [][Next]_vars

----------------------------------------------------------------------------
\* Vocabulary of the properties.

Returned == pc \in {"done", "failed"}

Cells == (1..d) \X (1..d)

\* The offsets of the four points, in units of epsilon, in call order.
Offsets == <<2, -2, 1, -1>>

\* The point the n-th gradient call is expected at.
ExpectedPoint(n) ==
  LET dim == ((n - 1) \div 4) + 1
      k == ((n - 1) % 4) + 1
  IN [x EXCEPT ![dim] = x[dim] + Offsets[k] * epsilon]

\* The gradient calls the routine has made when it stands at pc.
CallsSoFar ==
  4 * i + (CASE pc = "s2" -> 1 [] pc = "s3" -> 2 [] pc = "s4" -> 3
             [] pc = "col" -> 4 [] OTHER -> 0)

\* Twice the symmetric matrix A of the quadratic form sum_{j<=k} Q[j,k] x_j x_k.
TwoA(fn, r, c) == IF r = c THEN 2 * fn.Q[<<r, r>>] ELSE Coef(fn, r, c)

\* The second partial derivatives of f at p.
Hessian(fn, p, r, c) ==
  IF r = c
  THEN 2 * fn.Q[<<r, r>>] + 6 * fn.c3 * p[r] + 12 * fn.c4 * p[r]^2 + 30 * fn.c6 * p[r]^4
  ELSE Coef(fn, r, c)

IsQuadratic(fn) == fn.c3 = 0 /\ fn.c4 = 0 /\ fn.c6 = 0

\* A coefficient the current invocation has stored.
Written(v) == v.k \notin {"prior", "indet"}

----------------------------------------------------------------------------
\* C1: for a quadratic form f(x) = x'Ax with A symmetric and a step epsilon > 0
\* the returned hess_fx equals 2A exactly; for x = [1, 2] and
\* f(x) = x0^2 + x0*x1 + x1^2 the routine returns fx = 7 and H = [[2,1],[1,2]].
C1_QuadraticExact ==
  (pc = "done" /\ epsilon > 0 /\ IsQuadratic(f)) =>
    /\ \A rc \in Cells : hess_fx.a[rc] = Num(TwoA(f, rc[1], rc[2]))
    /\ (x = <<1, 2>> /\ f.Q = Ones(2)) =>
         /\ fx = Num(7)
         /\ hess_fx.a = [rc \in (1..2) \X (1..2) |-> IF rc[1] = rc[2] THEN Num(2) ELSE Num(1)]

C1_Witness ==
  /\ pc = "done" /\ epsilon = 2 /\ x = <<1, 2>>
  /\ IsQuadratic(f) /\ f.Q = Ones(2) /\ f.pk = 0
  /\ fx = Num(7)
  /\ hess_fx.a[<<1, 1>>] = Num(2) /\ hess_fx.a[<<2, 1>>] = Num(1)
  /\ hess_fx.a[<<1, 2>>] = Num(1) /\ hess_fx.a[<<2, 2>>] = Num(2)

\* C2: the n-th gradient call is made at the caller's x with coordinate
\* (n-1) div 4 alone moved, by +2, -2, +1, -1 times epsilon in that order,
\* each offset measured from the original x; a dimension that has been
\* completed has been queried exactly four times.
C2_FourPointsFromOriginal ==
  /\ \A n \in 1..Len(gcalls) : gcalls[n] = ExpectedPoint(n)
  /\ pc # "failed" => Len(gcalls) = CallsSoFar
  /\ pc = "failed" => Len(gcalls) \in (4 * i)..(4 * i + 4)

C2_Witness ==
  /\ pc = "done" /\ d = 2 /\ epsilon = 1 /\ x = <<1, 2>>
  /\ gcalls = << <<3, 2>>, <<-1, 2>>, <<2, 2>>, <<0, 2>>,
                 <<1, 4>>, <<1, 0>>, <<1, 3>>, <<1, 1>> >>

\* C3: the working point x_temp equals the caller's x at the head of every
\* iteration and after the last one, and at any moment differs from x in at
\* most one coordinate, the one being perturbed.
C3_WorkingPointRestored ==
  /\ pc \in {"loop", "eval", "done"} => x_temp = x
  /\ pc # "entry" =>
       /\ Len(x_temp) = Len(x)
       /\ \A j \in 1..d : x_temp[j] # x[j] => j = i + 1
       /\ Cardinality({j \in 1..d : x_temp[j] # x[j]}) <= 1

C3_Witness ==
  /\ pc = "loop" /\ d = 2 /\ i = 1 /\ epsilon = 2
  /\ Len(gcalls) = 4 /\ gcalls[4] # x
  /\ x_temp = x

\* C4: on normal return fx is f at the caller's unperturbed x, obtained by
\* one plain call of f made after the last column was stored; before that
\* call fx is untouched, so fx never holds a value a gradient call returned.
C4_FxIsPlainValue ==
  /\ pc = "done" =>
       /\ fx = Num(Value(f, x))
       /\ fcalls = <<x>>
       /\ i = d
  /\ pc # "done" => fx = Prior
  /\ pc \notin {"done", "failed"} => fcalls = <<>>

C4_Witness ==
  /\ pc = "done" /\ d = 2 /\ x = <<1, 2>> /\ epsilon = 1
  /\ f.Q = Ones(2) /\ IsQuadratic(f)
  /\ fx = Num(7) /\ dummy_fx_eval = Num(3)

\* C5: a successful call on a point of length d has made exactly 4*d
\* gradient calls, four of them moving each coordinate, and exactly one
\* plain call of f, for every d >= 0.
C5_CallCounts ==
  pc = "done" =>
    /\ Len(gcalls) = 4 * d
    /\ Len(fcalls) = 1
    /\ epsilon # 0 =>
         \A j \in 1..d : Cardinality({n \in 1..Len(gcalls) : gcalls[n][j] # x[j]}) = 4

C5_Witness ==
  /\ pc = "done" /\ d = 2 /\ epsilon = 1
  /\ Len(gcalls) = 8 /\ Len(fcalls) = 1

\* C6: from the resize on, and so on return, hess_fx has exactly d rows and
\* d columns, d the length of x, whatever shape it had at the call; for
\* d = 0 no gradient call is made, hess_fx is the empty matrix and fx = f([]).
C6_ShapeIsDByD ==
  /\ pc # "entry" =>
       /\ d = Len(x)
       /\ hess_fx.rows = d /\ hess_fx.cols = d
       /\ DOMAIN hess_fx.a = Cells
  /\ (pc = "done" /\ d = 0) =>
       /\ gcalls = <<>>
       /\ hess_fx.a = <<>>
       /\ fx = Num(Value(f, <<>>))

C6_Witness ==
  /\ pc = "done" /\ d = 0
  /\ h0.rows = 1 /\ h0.cols = 1
  /\ hess_fx.rows = 0 /\ hess_fx.cols = 0
  /\ gcalls = <<>> /\ fx = Num(0)

\* C7: for d = 1, a step epsilon > 0 and f whose derivative g is a polynomial
\* of degree <= 3 (f = q x^2 + c3 x^3 + c4 x^4, in particular f = x^3), the
\* returned H is [g'(x)] exactly: 6x for f = x^3.
C7_CubicGradientExact ==
  (pc = "done" /\ d = 1 /\ epsilon > 0 /\ f.c6 = 0) =>
    /\ hess_fx.a[<<1, 1>>] =
         Num(2 * f.Q[<<1, 1>>] + 6 * f.c3 * x[1] + 12 * f.c4 * x[1]^2)
    /\ (f.Q = Zeros(1) /\ f.c3 = 1 /\ f.c4 = 0) => hess_fx.a[<<1, 1>>] = Num(6 * x[1])

C7_Witness ==
  /\ pc = "done" /\ d = 1 /\ epsilon = 2 /\ x = <<2>>
  /\ f.Q = Zeros(1) /\ f.c3 = 1 /\ f.c4 = 0 /\ f.c6 = 0
  /\ hess_fx.a[<<1, 1>>] = Num(12)

\* C8: a failure of the gradient oracle or of f leaves the routine at once
\* with that failure: the failing call is the last call made, every call
\* before it succeeded, it is made once, and fx receives no value.
C8_FailurePropagates ==
  /\ thrown # "none" <=> pc = "failed"
  /\ \A n \in 1..Len(gcalls) :
       ~Defined(f, gcalls[n]) => (pc = "failed" /\ n = Len(gcalls) /\ fcalls = <<>>)
  /\ \A n \in 1..Len(fcalls) : ~Defined(f, fcalls[n]) => (pc = "failed" /\ n = 1)
  /\ pc = "failed" =>
       /\ thrown = "domain_error"
       /\ fx = Prior
       /\ \/ (fcalls = <<>> /\ gcalls # <<>> /\ ~Defined(f, gcalls[Len(gcalls)]))
          \/ (fcalls = <<x>> /\ ~Defined(f, x))

C8_Witness ==
  /\ pc = "failed" /\ thrown = "domain_error"
  /\ d = 2 /\ i = 1 /\ Len(gcalls) = 7 /\ fcalls = <<>>
  /\ ~Defined(f, gcalls[7])

\* C9: whenever control is back with the caller hess_fx is d x d and either
\* no column or every column of it was stored by this invocation: never some
\* columns of this invocation next to coefficients it did not store.
C9_NoPartialUpdate ==
  Returned =>
    /\ hess_fx.rows = d /\ hess_fx.cols = d
    /\ ~ /\ \E rc \in Cells : Written(hess_fx.a[rc])
         /\ \E rc \in Cells : ~Written(hess_fx.a[rc])

\* C10 as stated: for every epsilon <= 0 no error is diagnosed, all 4*d
\* gradient calls are made, and the returned H is not the Hessian of f at x.
C10_NonPositiveStepIsGarbage ==
  (pc = "done" /\ epsilon <= 0 /\ d >= 1) =>
    /\ Len(gcalls) = 4 * d
    /\ \E rc \in Cells : hess_fx.a[rc] # Num(Hessian(f, x, rc[1], rc[2]))

\* C10 as amended: epsilon is not validated: for epsilon <= 0 the only error is
\* one the oracle raised at a point of its own, a call that returns has made
\* all 4*d gradient calls; for epsilon = 0 every coefficient of H is NaN (0/0),
\* and for epsilon < 0 H is, in exact arithmetic, the H the routine computes
\* for the step -epsilon.
C10_NonPositiveStep ==
  epsilon <= 0 =>
    /\ pc = "failed" =>
         \/ \E n \in 1..Len(gcalls) : ~Defined(f, gcalls[n])
         \/ ~Defined(f, x)
    /\ pc = "done" =>
         /\ Len(gcalls) = 4 * d
         /\ epsilon = 0 => \A rc \in Cells : hess_fx.a[rc] = NaN
         /\ epsilon < 0 =>
              \A rc \in Cells :
                hess_fx.a[rc] = StencilColumn(f, x, rc[2] - 1, -epsilon)[rc[1]]

C10_Witness ==
  /\ pc = "done" /\ epsilon = -1 /\ d = 2 /\ x = <<1, 2>>
  /\ f.Q = Ones(2) /\ IsQuadratic(f)
  /\ hess_fx.a[<<1, 1>>] = Num(2) /\ hess_fx.a[<<1, 2>>] = Num(1)

====
